---- MODULE Spec2Model ----
(***************************************************************************)
(* Chance Encounter (src/chance_encounter.py): two agents on a grid, the   *)
(* interactive round (ChanceEncounter.run and the step_* methods) and the  *)
(* headless Monte Carlo estimator (ChanceEncounter.monte_carlo).           *)
(*                                                                         *)
(* Positions are pairs <<x, y>>.  An Agent is a record [pos, prev]; the    *)
(* colour field of the dataclass is a rendering attribute that no logic    *)
(* reads and is left out.  Rendering (draw_grid, draw_agent, draw_panel)   *)
(* reads the state and writes none of it.                                  *)
(***************************************************************************)
EXTENDS Integers, Sequences, FiniteSets, TLC

VARIABLES
    GRID_W, GRID_H,          \* grid size in cells (module globals, fixed per run)
    mode, auto_run, turns, met, show_mc, obstacles_on, walls, blue, red,
                             \* the fields of ChanceEncounter
    mc,                      \* the frame of a monte_carlo call (locals + position)
    ref,                     \* a second round, driven by the draws of the trial
    call,                    \* a direct call of a helper function and its result
    rng                      \* the draws of the random source, kept to feed them again

gridVars == <<GRID_W, GRID_H>>
gameVars == <<mode, auto_run, turns, met, show_mc, obstacles_on, walls, blue, red>>
vars == <<GRID_W, GRID_H, mode, auto_run, turns, met, show_mc, obstacles_on,
          walls, blue, red, mc, ref, call, rng>>

----------------------------------------------------------------------------
(* Bounds of the model *)

\* grid sizes 1..MaxGridW x 1..MaxGridH stand for the 12 x 12 of the source
MaxGridW == 3
MaxGridH == 2
\* gen_walls blocks at most this many cells
MaxWalls == 1
\* interactive turns are counted up to this number
MaxTurns == 2
\* a direct call of valid_moves is given at most this many blocked cells
MaxBlocked == 3

----------------------------------------------------------------------------
(* Data structures and helper functions *)

Agent(p, q) == [pos |-> p, prev |-> q]

Cells == (0 .. GRID_W - 1) \X (0 .. GRID_H - 1)

in_bounds(p) == 0 <= p[1] /\ p[1] < GRID_W /\ 0 <= p[2] /\ p[2] < GRID_H

neighbors_Diagonal(p) ==
    << <<p[1] + 1, p[2] + 1>>, <<p[1] - 1, p[2]>>, <<p[1], p[2] + 1>>, <<p[1], p[2] - 1>> >>

neighbors(p) ==
    << <<p[1] + 1, p[2]>>, <<p[1] - 1, p[2]>>, <<p[1], p[2] + 1>>, <<p[1], p[2] - 1>> >>

encounter_OneSided(a, b) == a.pos = b.pos \/ a.pos = b.prev

encounter_SwapTypo(a, b) == a.pos = b.pos \/ (a.pos = b.prev /\ b.pos = b.prev)

encounter(a, b) == a.pos = b.pos \/ (a.pos = b.prev /\ b.pos = a.prev)

valid_moves_NoFallback(p, w) ==
    SelectSeq(neighbors(p), LAMBDA d : in_bounds(d) /\ d \notin w)

valid_moves(p, w) ==
    LET opts == SelectSeq(neighbors(p), LAMBDA d : in_bounds(d) /\ d \notin w)
    IN  IF opts = <<>> THEN <<p>> ELSE opts

\* random.choice(valid_moves(p, w)): r is the index that the draw selects
Draws(p, w) == 1 .. Len(valid_moves(p, w))

random_step(p, w, r) == valid_moves(p, w)[r]

\* every cell is blocked or not, independently
gen_walls == {w \in SUBSET Cells : Cardinality(w) <= MaxWalls}

ensure_reachable_FirstOnly(w, starts) == w \ {starts[1]}

ensure_reachable(w, starts) == w \ {starts[i] : i \in 1 .. Len(starts)}

a_start == <<0, 0>>

b_start == <<GRID_W - 1, GRID_H - 1>>

----------------------------------------------------------------------------
(* The round: the fields blue, red, turns, met taken together *)

Round(bl, rd, t, m) == [blue |-> bl, red |-> rd, turns |-> t, met |-> m]

cur == Round(blue, red, turns, met)

SetRound(g) == blue' = g.blue /\ red' = g.red /\ turns' = g.turns /\ met' = g.met

reset_round_KeepsAutoRun ==
    /\ turns' = 0
    /\ met' = FALSE
    /\ UNCHANGED auto_run
    /\ show_mc' = <<>>
    /\ \E g \in (IF obstacles_on' THEN gen_walls ELSE {{}}) :
           walls' = ensure_reachable(g, <<a_start, b_start>>)
    /\ blue' = Agent(a_start, a_start)
    /\ red' = Agent(b_start, b_start)

\* reset_round; obstacles_on' is the value of obstacles_on when it runs
reset_round ==
    /\ turns' = 0
    /\ met' = FALSE
    /\ auto_run' = FALSE
    /\ show_mc' = <<>>
    /\ \E g \in (IF obstacles_on' THEN gen_walls ELSE {{}}) :
           walls' = ensure_reachable(g, <<a_start, b_start>>)
    /\ blue' = Agent(a_start, a_start)
    /\ red' = Agent(b_start, b_start)

step_random_vs_random_PrevAfterMove(g, w, i, j) ==
    IF g.met
    THEN g
    ELSE LET bl == Agent(random_step(g.blue.pos, w, i), random_step(g.blue.pos, w, i))
             rd == Agent(random_step(g.red.pos, w, j), g.red.pos)
         IN  Round(bl, rd, g.turns + 1, encounter(bl, rd))

step_random_vs_random_NoGuard(g, w, i, j) ==
    LET bl == Agent(random_step(g.blue.pos, w, i), g.blue.pos)
        rd == Agent(random_step(g.red.pos, w, j), g.red.pos)
    IN  Round(bl, rd, g.turns + 1, encounter(bl, rd))

\* step_random_vs_random with the two draws i (blue) and j (red)
step_random_vs_random(g, w, i, j) ==
    IF g.met
    THEN g
    ELSE LET bl == Agent(random_step(g.blue.pos, w, i), g.blue.pos)
             rd == Agent(random_step(g.red.pos, w, j), g.red.pos)
         IN  Round(bl, rd, g.turns + 1, encounter(bl, rd))

step_player_vs_random_StaleMet(g, w, player_dir, j) ==
    IF g.met
    THEN g
    ELSE LET target == <<g.blue.pos[1] + player_dir[1], g.blue.pos[2] + player_dir[2]>>
             bl == IF in_bounds(target) /\ target \notin w
                   THEN Agent(target, g.blue.pos)
                   ELSE Agent(g.blue.pos, g.blue.pos)
             rd == Agent(random_step(g.red.pos, w, j), g.red.pos)
         IN  Round(bl, rd, g.turns + 1, encounter(bl, g.red))

step_player_vs_random_FreeTurn(g, w, player_dir, j) ==
    LET target == <<g.blue.pos[1] + player_dir[1], g.blue.pos[2] + player_dir[2]>>
    IN  IF g.met \/ ~(in_bounds(target) /\ target \notin w)
        THEN g
        ELSE LET bl == Agent(target, g.blue.pos)
                 rd == Agent(random_step(g.red.pos, w, j), g.red.pos)
             IN  Round(bl, rd, g.turns + 1, encounter(bl, rd))

\* step_player_vs_random with the direction of the key and red's draw j
step_player_vs_random(g, w, player_dir, j) ==
    IF g.met
    THEN g
    ELSE LET target == <<g.blue.pos[1] + player_dir[1], g.blue.pos[2] + player_dir[2]>>
             bl == IF in_bounds(target) /\ target \notin w
                   THEN Agent(target, g.blue.pos)
                   ELSE Agent(g.blue.pos, g.blue.pos)
             rd == Agent(random_step(g.red.pos, w, j), g.red.pos)
         IN  Round(bl, rd, g.turns + 1, encounter(bl, rd))

\* the draws a step consumes: none once the round is over
StepDraws(p) == IF met THEN {1} ELSE Draws(p, walls)

\* the turn counter is followed up to MaxTurns
Countable == met \/ turns < MaxTurns

dir_map == {<<0, -1>>, <<0, 1>>, <<-1, 0>>, <<1, 0>>}
----------------------------------------------------------------------------
(* Monte Carlo *)

\* the default arguments of monte_carlo, scaled down from 1000 and 2000
MC_TRIALS == 1
MC_MAX_STEPS == 1
\* a direct call of monte_carlo is given arguments up to these
MaxTrials == 2
MaxSteps == 2

None == <<>>

RECURSIVE GCD(_, _)
GCD(m, n) == IF n = 0 THEN m ELSE GCD(n, m % n)

Abs(n) == IF n < 0 THEN 0 - n ELSE n

\* the value of the float n / d, d # 0, as a reduced fraction (-0.0 = 0.0)
Float(n, d) ==
    LET g == GCD(Abs(n), Abs(d))
        s == IF d < 0 THEN 0 - 1 ELSE 1
    IN  [kind |-> "float", num |-> (s * n) \div g, den |-> Abs(d) \div g]

inf == [kind |-> "inf", num |-> 1, den |-> 0]

ZeroDivisionError == [kind |-> "ZeroDivisionError", num |-> 0, den |-> 0]

\* Python's n / d
div(n, d) == IF d = 0 THEN ZeroDivisionError ELSE Float(n, d)

\* the two conditional expressions that end monte_carlo and its return value
mc_result_NoTrialsGuard(meets, total_steps, trials) ==
    LET meet_rate == div(meets, trials)
        avg_steps == IF meets # 0 THEN div(total_steps, meets) ELSE inf
    IN  <<avg_steps, meet_rate>>

mc_result_NoMeetsGuard(meets, total_steps, trials) ==
    LET meet_rate == IF trials # 0 THEN div(meets, trials) ELSE Float(0, 1)
        avg_steps == div(total_steps, meets)
    IN  <<avg_steps, meet_rate>>

mc_result(meets, total_steps, trials) ==
    LET meet_rate == IF trials # 0 THEN div(meets, trials) ELSE Float(0, 1)
        avg_steps == IF meets # 0 THEN div(total_steps, meets) ELSE inf
    IN  <<avg_steps, meet_rate>>

\* the list random_step(a, set()) chooses from
mc_moves_Walls(p) == valid_moves(p, walls)

mc_moves(p) == valid_moves(p, {})

\* the locals of a trial at the head of its first iteration
mc_trial ==
    [a |-> a_start, b |-> b_start, a_prev |-> a_start, b_prev |-> b_start,
     steps |-> 0, a_next |-> None, b_next |-> None, hit |-> FALSE]

mc_turn_NoStep(t, i, j) ==
    LET a_next == mc_moves(t.a)[i]
        b_next == mc_moves(t.b)[j]
        steps == t.steps + 1
    IN  IF a_next = b_next \/ (a_next = t.b_prev /\ b_next = t.a_prev)
        THEN [t EXCEPT !.steps = steps, !.a_next = a_next, !.b_next = b_next,
                       !.hit = TRUE]
        ELSE [a |-> a_next, b |-> b_next, a_prev |-> t.a, b_prev |-> t.b,
              steps |-> t.steps, a_next |-> a_next, b_next |-> b_next, hit |-> FALSE]

mc_turn_DoubleCount(t, i, j) ==
    LET a_next == mc_moves(t.a)[i]
        b_next == mc_moves(t.b)[j]
        steps == t.steps + 1
    IN  IF a_next = b_next \/ (a_next = t.b_prev /\ b_next = t.a_prev)
        THEN [t EXCEPT !.steps = steps + 1, !.a_next = a_next, !.b_next = b_next,
                       !.hit = TRUE]
        ELSE [a |-> a_next, b |-> b_next, a_prev |-> t.a, b_prev |-> t.b,
              steps |-> steps, a_next |-> a_next, b_next |-> b_next, hit |-> FALSE]

\* one iteration of the inner loop with the draws i and j; hit: the break was taken
mc_turn(t, i, j) ==
    LET a_next == mc_moves(t.a)[i]
        b_next == mc_moves(t.b)[j]
        steps == t.steps + 1
    IN  IF a_next = b_next \/ (a_next = t.b_prev /\ b_next = t.a_prev)
        THEN [t EXCEPT !.steps = steps, !.a_next = a_next, !.b_next = b_next,
                       !.hit = TRUE]
        ELSE [a |-> a_next, b |-> b_next, a_prev |-> t.a, b_prev |-> t.b,
              steps |-> steps, a_next |-> a_next, b_next |-> b_next, hit |-> FALSE]

mc_turns(t) ==
    {mc_turn(t, i, j) : i \in 1 .. Len(mc_moves(t.a)), j \in 1 .. Len(mc_moves(t.b))}

\* the turns at which a trial can break, 0 when it can run through its n iterations
RECURSIVE trial_outcomes(_, _)
trial_outcomes(S, n) ==
    IF S = {} THEN {}
    ELSE IF n <= 0 THEN {0}
    ELSE LET R == UNION {mc_turns(t) : t \in S}
         IN  {r.steps : r \in {x \in R : x.hit}}
                 \cup trial_outcomes({x \in R : ~x.hit}, n - 1)

\* the pairs <<meets, total_steps>> that n more trials can add up to
RECURSIVE tally(_, _, _)
tally(O, n, acc) ==
    IF n <= 0 THEN acc
    ELSE tally(O, n - 1,
               {IF k = 0 THEN mt ELSE <<mt[1] + 1, mt[2] + k>> : mt \in acc, k \in O})

\* the values a call of monte_carlo can return
monte_carlo(trials, max_steps) ==
    {mc_result(mt[1], mt[2], trials) :
         mt \in tally(trial_outcomes({mc_trial}, max_steps), trials, {<<0, 0>>})}

mc_idle ==
    [pc |-> "idle", trials |-> 0, max_steps |-> 0, trial |-> 0, meets |-> 0,
     total_steps |-> 0, t |-> None, result |-> None]

ref_idle == Round(Agent(a_start, a_start), Agent(b_start, b_start), 0, FALSE)

call_idle ==
    [fn |-> "none", a |-> Agent(a_start, a_start), b |-> Agent(a_start, a_start),
     p |-> a_start, w |-> {}, done |-> FALSE, out |-> None]

\* no call of monte_carlo has been made: nothing drawn, nothing to feed
rng_idle == [phase |-> "none", log |-> <<>>, tape |-> <<>>, first |-> None]

----------------------------------------------------------------------------
(* Interactive play: ChanceEncounter.__init__ and the handlers of run *)

GridInit == GRID_W \in 1 .. MaxGridW /\ GRID_H \in 1 .. MaxGridH

Init ==
    /\ GridInit
    /\ mode = "PLAYER_VS_RANDOM"
    /\ auto_run = FALSE
    /\ turns = 0
    /\ met = FALSE
    /\ show_mc = None
    /\ obstacles_on = FALSE
    /\ walls = {}
    /\ blue = Agent(a_start, a_start)
    /\ red = Agent(b_start, b_start)
    /\ mc = mc_idle
    /\ ref = ref_idle
    /\ rng = rng_idle
    /\ call = call_idle

Other == UNCHANGED <<GRID_W, GRID_H, mc, ref, call, rng>>

KeyM ==
    /\ mode' = IF mode = "PLAYER_VS_RANDOM" THEN "RANDOM_VS_RANDOM" ELSE "PLAYER_VS_RANDOM"
    /\ UNCHANGED obstacles_on
    /\ reset_round
    /\ Other

KeyR ==
    /\ UNCHANGED <<mode, obstacles_on>>
    /\ reset_round
    /\ Other

KeyO ==
    /\ obstacles_on' = ~obstacles_on
    /\ UNCHANGED mode
    /\ reset_round
    /\ Other

KeyP_Pauses ==
    /\ \E r \in monte_carlo(MC_TRIALS, MC_MAX_STEPS) : show_mc' = r
    /\ auto_run' = FALSE
    /\ UNCHANGED <<mode, turns, met, obstacles_on, walls, blue, red>>
    /\ Other

KeyP ==
    /\ \E r \in monte_carlo(MC_TRIALS, MC_MAX_STEPS) : show_mc' = r
    /\ UNCHANGED <<mode, auto_run, turns, met, obstacles_on, walls, blue, red>>
    /\ Other

KeySpace ==
    /\ Countable
    /\ IF mode = "RANDOM_VS_RANDOM"
       THEN \E i \in StepDraws(blue.pos), j \in StepDraws(red.pos) :
                SetRound(step_random_vs_random(cur, walls, i, j))
       ELSE UNCHANGED <<blue, red, turns, met>>
    /\ UNCHANGED <<mode, auto_run, show_mc, obstacles_on, walls>>
    /\ Other

KeyReturn ==
    /\ auto_run' = IF mode = "RANDOM_VS_RANDOM" THEN ~auto_run ELSE auto_run
    /\ UNCHANGED <<mode, turns, met, show_mc, obstacles_on, walls, blue, red>>
    /\ Other

KeyDir ==
    /\ Countable
    /\ IF mode = "PLAYER_VS_RANDOM"
       THEN \E d \in dir_map, j \in StepDraws(red.pos) :
                SetRound(step_player_vs_random(cur, walls, d, j))
       ELSE UNCHANGED <<blue, red, turns, met>>
    /\ UNCHANGED <<mode, auto_run, show_mc, obstacles_on, walls>>
    /\ Other

\* the auto-run block of the main loop, on a tick that is a multiple of 3
AutoTick ==
    /\ mode = "RANDOM_VS_RANDOM" /\ auto_run /\ ~met
    /\ Countable
    /\ \E i \in StepDraws(blue.pos), j \in StepDraws(red.pos) :
           SetRound(step_random_vs_random(cur, walls, i, j))
    /\ UNCHANGED <<mode, auto_run, show_mc, obstacles_on, walls>>
    /\ Other

Next == KeyM \/ KeyR \/ KeyO \/ KeyP \/ KeySpace \/ KeyReturn \/ KeyDir \/ AutoTick

Spec == Init /\ [][Next]_vars
----------------------------------------------------------------------------
(* A call of monte_carlo, one loop iteration at a time.  Beside it runs ref,  *)
(* a round on the obstacle-free grid that is reset when a trial begins and    *)
(* stepped by step_random_vs_random with the draws of each turn of the trial. *)

\* the round is in a state reset_round leaves, obstacles on or off
AfterReset ==
    /\ mode = "PLAYER_VS_RANDOM"
    /\ auto_run = FALSE
    /\ turns = 0
    /\ met = FALSE
    /\ show_mc = None
    /\ obstacles_on \in BOOLEAN
    /\ walls \in {ensure_reachable(g, <<a_start, b_start>>) :
                      g \in (IF obstacles_on THEN gen_walls ELSE {{}})}
    /\ blue = Agent(a_start, a_start)
    /\ red = Agent(b_start, b_start)

InitMC ==
    /\ GridInit
    /\ AfterReset
    /\ mc = mc_idle
    /\ ref = ref_idle
    /\ rng = rng_idle
    /\ call = call_idle

Frame == UNCHANGED <<GRID_W, GRID_H, mode, auto_run, turns, met, show_mc,
                     obstacles_on, walls, blue, red, call, rng>>

\* entry: meets = 0, total_steps = 0
MCCall ==
    /\ mc.pc = "idle"
    /\ \E trials \in (0 - 1) .. MaxTrials, max_steps \in (0 - 1) .. MaxSteps :
           mc' = [mc_idle EXCEPT !.pc = "outer", !.trials = trials,
                                 !.max_steps = max_steps]
    /\ UNCHANGED ref
    /\ Frame

\* an iteration of `for _ in range(trials)` begins: the locals are set afresh
MCTrial ==
    /\ mc.pc = "outer"
    /\ mc.trial < mc.trials
    /\ mc' = [mc EXCEPT !.pc = "inner", !.trial = @ + 1, !.t = mc_trial]
    /\ ref' = ref_idle
    /\ Frame

\* the frame after an iteration that left the locals n: lines 214-216 on a hit
MCAfter(n) ==
    IF n.hit
    THEN [mc EXCEPT !.t = n, !.meets = @ + 1,
                    !.total_steps = @ + n.steps, !.pc = "outer"]
    ELSE [mc EXCEPT !.t = n]

\* an iteration of `for _ in range(max_steps)`
MCTurn ==
    /\ mc.pc = "inner"
    /\ mc.t.steps < mc.max_steps
    /\ \E i \in 1 .. Len(mc_moves(mc.t.a)), j \in 1 .. Len(mc_moves(mc.t.b)) :
           /\ mc' = MCAfter(mc_turn(mc.t, i, j))
           /\ ref' = step_random_vs_random(ref, {}, i, j)
    /\ Frame

\* the inner loop runs out
MCTrialEnd ==
    /\ mc.pc = "inner"
    /\ mc.t.steps >= mc.max_steps
    /\ mc' = [mc EXCEPT !.pc = "outer"]
    /\ UNCHANGED ref
    /\ Frame

\* the outer loop runs out: the two conditional expressions and the return
MCReturn ==
    /\ mc.pc = "outer"
    /\ mc.trial >= mc.trials
    /\ LET r == mc_result(mc.meets, mc.total_steps, mc.trials)
       IN  mc' = [mc EXCEPT !.result = r,
                            !.pc = IF ZeroDivisionError \in {r[1], r[2]}
                                   THEN "raised" ELSE "returned"]
    /\ UNCHANGED ref
    /\ Frame

NextMC == MCCall \/ MCTrial \/ MCTurn \/ MCTrialEnd \/ MCReturn

SpecMC == InitMC /\ [][NextMC]_vars

\* a call that has begun runs on: the interpreter executes its next statement
MCRun == MCTrial \/ MCTurn \/ MCTrialEnd \/ MCReturn

SpecMCFair == InitMC /\ [][NextMC]_vars /\ WF_vars(MCRun)

----------------------------------------------------------------------------
(* Direct calls of encounter and valid_moves on arbitrary arguments *)

Agents == {Agent(p, q) : p \in Cells, q \in Cells}

InitCalls ==
    /\ GridInit
    /\ AfterReset
    /\ ~obstacles_on
    /\ mc = mc_idle
    /\ ref = ref_idle
    /\ rng = rng_idle
    /\ \/ \E a \in Agents, b \in Agents :
              call = [call_idle EXCEPT !.fn = "encounter", !.a = a, !.b = b]
       \/ \E p \in Cells, w \in SUBSET Cells :
              /\ Cardinality(w) <= MaxBlocked
              /\ call = [call_idle EXCEPT !.fn = "valid_moves", !.p = p, !.w = w]

CallEncounter ==
    /\ call.fn = "encounter" /\ ~call.done
    /\ call' = [call EXCEPT !.done = TRUE, !.out = encounter(call.a, call.b)]
    /\ UNCHANGED <<GRID_W, GRID_H, mode, auto_run, turns, met, show_mc,
                   obstacles_on, walls, blue, red, mc, ref, rng>>

CallValidMoves ==
    /\ call.fn = "valid_moves" /\ ~call.done
    /\ call' = [call EXCEPT !.done = TRUE, !.out = valid_moves(call.p, call.w)]
    /\ UNCHANGED <<GRID_W, GRID_H, mode, auto_run, turns, met, show_mc,
                   obstacles_on, walls, blue, red, mc, ref, rng>>

NextCalls == CallEncounter \/ CallValidMoves

SpecCalls == InitCalls /\ [][NextCalls]_vars
----------------------------------------------------------------------------
(* The P key pressed twice: the call of monte_carlo one loop iteration at a  *)
(* time as in SpecMC, the random source giving the second call the draws it  *)
(* gave the first.  Between the two presses the O key may be pressed.         *)

\* K_p: self.monte_carlo() is entered with its default arguments
PressP ==
    /\ mc.pc = "idle"
    /\ rng.phase \in {"none", "between"}
    /\ mc' = [mc_idle EXCEPT !.pc = "outer", !.trials = MC_TRIALS,
                             !.max_steps = MC_MAX_STEPS]
    /\ rng' = IF rng.phase = "none"
              THEN [rng EXCEPT !.phase = "first"]
              ELSE [rng EXCEPT !.phase = "second", !.tape = rng.log, !.log = <<>>]
    /\ UNCHANGED ref
    /\ UNCHANGED <<GRID_W, GRID_H, mode, auto_run, turns, met, show_mc,
                   obstacles_on, walls, blue, red, call>>

\* the indices random.choice can yield on a list of length len for agent k:
\* any in the first call, the one on the tape in the second
Source(len, k) ==
    IF rng.phase = "second" /\ rng.tape # <<>>
    THEN {((Head(rng.tape)[k] - 1) % len) + 1}
    ELSE 1 .. len

\* an iteration of `for _ in range(max_steps)`, its draws taken from the source
TapeTurn ==
    /\ mc.pc = "inner"
    /\ mc.t.steps < mc.max_steps
    /\ \E i \in Source(Len(mc_moves(mc.t.a)), 1), j \in Source(Len(mc_moves(mc.t.b)), 2) :
           /\ mc' = MCAfter(mc_turn(mc.t, i, j))
           /\ rng' = [rng EXCEPT !.log = Append(@, <<i, j>>),
                                 !.tape = IF @ = <<>> THEN @ ELSE Tail(@)]
    /\ UNCHANGED ref
    /\ UNCHANGED <<GRID_W, GRID_H, mode, auto_run, turns, met, show_mc,
                   obstacles_on, walls, blue, red, call>>

\* K_p: self.show_mc = (avg, rate)
PressPDone ==
    /\ mc.pc = "returned"
    /\ show_mc' = mc.result
    /\ mc' = mc_idle
    /\ rng' = IF rng.phase = "first"
              THEN [rng EXCEPT !.phase = "between", !.first = mc.result]
              ELSE [rng EXCEPT !.phase = "end"]
    /\ UNCHANGED ref
    /\ UNCHANGED <<GRID_W, GRID_H, mode, auto_run, turns, met,
                   obstacles_on, walls, blue, red, call>>

Between == mc.pc = "idle" /\ rng.phase = "between"

NextReplay ==
    \/ PressP
    \/ MCTrial
    \/ TapeTurn
    \/ MCTrialEnd
    \/ MCReturn
    \/ PressPDone
    \/ (Between /\ KeyO)

SpecReplay == Init /\ [][NextReplay]_vars

----------------------------------------------------------------------------
(* Properties *)

Range(f) == {f[i] : i \in 1 .. Len(f)}

Dist(p, q) == Abs(p[1] - q[1]) + Abs(p[2] - q[2])

\* the in-bounds cells one axis-aligned step from p
Adjacent(p) == {q \in Cells : Dist(p, q) = 1}

Meeting(a, b) == a.pos = b.pos

Crossing(a, b) == a.pos = b.prev /\ b.pos = a.prev

\* C2: encounter(a, b) is true exactly when the two agents are on the same cell
\* or each is on the cell the other came from, whatever the four positions are.
C2_EncounterExact ==
    (call.fn = "encounter" /\ call.done) =>
        /\ call.out \in BOOLEAN
        /\ (Meeting(call.a, call.b) => call.out = TRUE)
        /\ (Crossing(call.a, call.b) => call.out = TRUE)
        /\ (~Meeting(call.a, call.b) /\ ~Crossing(call.a, call.b) => call.out = FALSE)

\* a crossing on two different cells was reported as an encounter
C2_Witness ==
    /\ call.fn = "encounter" /\ call.done
    /\ call.out = TRUE
    /\ call.a.pos # call.b.pos
    /\ Dist(call.a.pos, call.a.prev) = 1

\* C3: valid_moves(p, walls) is never empty; it lists exactly the in-bounds,
\* unblocked neighbours of p when there are any, and is [p] otherwise, so that
\* every random step of a boxed-in agent stays on p.
C3_ValidMoves ==
    (call.fn = "valid_moves" /\ call.done) =>
        LET free == Adjacent(call.p) \ call.w
        IN  /\ Len(call.out) >= 1
            /\ free # {} => /\ Range(call.out) = free
                            /\ Len(call.out) = Cardinality(free)
            /\ free = {} => /\ call.out = <<call.p>>
                            /\ \A r \in Draws(call.p, call.w) :
                                   random_step(call.p, call.w, r) = call.p

\* a cell with neighbours, all of them blocked
C3_Witness ==
    /\ call.fn = "valid_moves" /\ call.done
    /\ Adjacent(call.p) # {}
    /\ Adjacent(call.p) \subseteq call.w
    /\ call.out = <<call.p>>

\* C4: once met is true, a step changes the agents, the turn counter or the met
\* flag only if it is a reset (the R, M or O key).
C4_Terminal ==
    [][met => (UNCHANGED <<blue, red, turns, met>> \/ KeyR \/ KeyM \/ KeyO)]_vars

\* a round of random-vs-random play that ended while auto-run was on
C4_Witness ==
    /\ met /\ turns >= 1
    /\ mode = "RANDOM_VS_RANDOM" /\ auto_run

\* C9: both agents always stand on in-bounds cells that are not walls, and the
\* two start corners are never blocked.
C9_AgentsOnFreeCells ==
    /\ blue.pos \in Cells \ walls
    /\ red.pos \in Cells \ walls
    /\ a_start \notin walls
    /\ b_start \notin walls

\* both agents have moved on a grid with a wall
C9_Witness ==
    /\ obstacles_on /\ walls # {}
    /\ turns >= 1
    /\ blue.pos # a_start /\ red.pos # b_start
MCOver == mc.pc \in {"returned", "raised"}

Invalid == mc.trials <= 0 \/ mc.max_steps <= 0

\* C1: a trial records a meeting at turn k exactly when the round stepped by
\* step_random_vs_random with the same draws has met at turn k.
C1_TrialMatchesRound ==
    (mc.pc \in {"inner", "outer"} /\ mc.trial >= 1) =>
        /\ mc.t.hit = ref.met
        /\ mc.t.hit => mc.t.steps = ref.turns

\* C5: with trials >= 1 and max_steps >= 1 the meet rate lies in [0, 1], and the
\* average is at least 1 and at most max_steps whenever a trial met.
C5_StatsInRange ==
    (MCOver /\ mc.trials >= 1 /\ mc.max_steps >= 1) =>
        LET avg_steps == mc.result[1]
            meet_rate == mc.result[2]
        IN  /\ mc.pc = "returned"
            /\ mc.meets <= mc.trials
            /\ meet_rate.kind = "float"
            /\ 0 <= meet_rate.num /\ meet_rate.num <= meet_rate.den
            /\ mc.meets >= 1 => /\ avg_steps.kind = "float"
                                /\ avg_steps.den <= avg_steps.num
                                /\ avg_steps.num <= mc.max_steps * avg_steps.den

\* a run in which some trials met and some did not
C5_Witness ==
    /\ mc.pc = "returned"
    /\ 1 <= mc.meets /\ mc.meets < mc.trials
    /\ mc.total_steps = mc.max_steps * mc.meets

\* C6: a turn of a trial is played only while the two agents have not had an
\* encounter; the turn on which they have it adds 1 to meets and its number to
\* total_steps and ends the trial; any other turn, and running into the step
\* cap, leaves meets and total_steps as they are.
C6_StepAccounting ==
    [][/\ MCTurn => /\ ~ref.met
                    /\ IF ref'.met
                       THEN /\ mc'.meets = mc.meets + 1
                            /\ mc'.total_steps = mc.total_steps + ref'.turns
                            /\ mc'.pc = "outer"
                       ELSE /\ mc'.meets = mc.meets
                            /\ mc'.total_steps = mc.total_steps
       /\ MCTrialEnd => /\ mc'.meets = mc.meets
                        /\ mc'.total_steps = mc.total_steps
                        /\ mc'.trial = mc.trial]_vars

\* C7 as stated: a call with a trial count or a step cap of zero or less does
\* not return statistics.
C7_FailFast == Invalid => mc.pc # "returned"

\* C7 as amended: such a call raises nothing; it plays no turn, counts no
\* meeting and returns the pair (infinity, 0).
C7_ReturnsDefaults ==
    (mc.pc # "idle" /\ Invalid) =>
        /\ mc.pc # "raised"
        /\ mc.meets = 0 /\ mc.total_steps = 0
        /\ mc.trial >= 1 => mc.t.steps = 0
        /\ mc.pc = "returned" => mc.result = <<inf, Float(0, 1)>>

\* a call with no trials at all has returned
C7_Witness == mc.pc = "returned" /\ mc.trials = 0

\* C8: no division by zero happens; with no meeting the average is the infinity
\* sentinel, otherwise it is total_steps / meets, and the rate is meets / trials.
C8_AvgAndRate ==
    MCOver =>
        LET avg_steps == mc.result[1]
            meet_rate == mc.result[2]
        IN  /\ mc.pc = "returned"
            /\ mc.meets = 0 => avg_steps = inf
            /\ mc.meets # 0 => /\ avg_steps.kind = "float"
                               /\ avg_steps.den >= 1
                               /\ avg_steps.num * mc.meets = mc.total_steps * avg_steps.den
            /\ mc.trials # 0 => /\ meet_rate.kind = "float"
                                /\ meet_rate.den >= 1
                                /\ meet_rate.num * mc.trials = mc.meets * meet_rate.den

\* trials were played to the step cap and none of them met
C8_Witness ==
    /\ mc.pc = "returned"
    /\ mc.trials >= 1 /\ mc.max_steps >= 1
    /\ mc.meets = 0

\* the cells a move on the obstacle-free grid can lead to
OpenMoves(p) == IF Adjacent(p) = {} THEN {p} ELSE Adjacent(p)

\* C10: every trial starts from the two corners with previous = current, and a
\* turn of a trial can take each agent to every in-bounds neighbour of its cell
\* and nowhere else, whatever the obstacle toggle and the walls of the round are.
C10_FreshOpenField ==
    mc.pc = "inner" =>
        /\ mc.t.steps = 0 =>
               /\ mc.t.a = <<0, 0>> /\ mc.t.b = <<GRID_W - 1, GRID_H - 1>>
               /\ mc.t.a_prev = mc.t.a /\ mc.t.b_prev = mc.t.b
               /\ ~mc.t.hit
        /\ mc.t.steps < mc.max_steps =>
               /\ {n.a_next : n \in mc_turns(mc.t)} = OpenMoves(mc.t.a)
               /\ {n.b_next : n \in mc_turns(mc.t)} = OpenMoves(mc.t.b)

\* a second trial begins after a trial that met, beside a round with a wall
\* next to blue's corner
C10_Witness ==
    /\ mc.pc = "inner" /\ mc.trial = 2 /\ mc.t.steps = 0
    /\ mc.meets = 1 /\ mc.max_steps >= 1
    /\ obstacles_on /\ walls \cap Adjacent(a_start) # {}
\* C11: a second call of monte_carlo with the same arguments that is fed the
\* draws of the first returns the same pair, whatever was done to the round in
\* between.
C11_SameDrawsSameStats == rng.phase = "end" => show_mc = rng.first

\* the second call has returned a meeting beside a round that has a wall next
\* to blue's corner
C11_Witness ==
    /\ rng.phase = "end"
    /\ show_mc[2] = Float(1, 1)
    /\ walls \cap Adjacent(a_start) # {}
\* the cells a random step from p can lead to on the grid with the walls of the round
FreeMoves(p) == IF Adjacent(p) \ walls = {} THEN {p} ELSE Adjacent(p) \ walls

RandomTurn == (KeySpace \/ AutoTick) /\ mode = "RANDOM_VS_RANDOM" /\ ~met

\* C12: a random-vs-random turn on a round that is not over sets each agent's
\* prev to its own position before the turn and its pos to a legal move from
\* that position, every pair of legal moves being possible, and sets met to the
\* encounter test on the two agents after both have moved.
C12_SimultaneousTurn ==
    /\ []((mode = "RANDOM_VS_RANDOM" /\ ~met) =>
            {<<g.blue.pos, g.red.pos>> :
                 g \in {step_random_vs_random(cur, walls, i, j) :
                            i \in Draws(blue.pos, walls), j \in Draws(red.pos, walls)}}
                = FreeMoves(blue.pos) \X FreeMoves(red.pos))
    /\ [][RandomTurn =>
              /\ blue'.prev = blue.pos /\ red'.prev = red.pos
              /\ blue'.pos \in FreeMoves(blue.pos)
              /\ red'.pos \in FreeMoves(red.pos)
              /\ turns' = turns + 1
              /\ met' = (Meeting(blue', red') \/ Crossing(blue', red'))]_vars

\* both agents have moved in a random-vs-random turn and the round goes on
C12_Witness ==
    /\ mode = "RANDOM_VS_RANDOM" /\ turns >= 1 /\ ~met
    /\ blue.prev # blue.pos /\ red.prev # red.pos

\* the cells that in-bounds, unblocked 4-neighbour moves lead to from the cells S
RECURSIVE Reach(_, _)
Reach(S, w) ==
    LET T == S \cup {q \in Cells \ w : \E p \in S : Dist(p, q) = 1}
    IN  IF T = S THEN S ELSE Reach(T, w)

\* C13: whatever walls reset_round leaves, a path of unblocked 4-neighbour
\* moves joins the two start cells.
C13_StartsConnected == b_start \in Reach({a_start}, walls)

\* C14: encounter(a, b) and encounter(b, a) are equal for all agents a and b.
C14_EncounterSymmetric ==
    (call.fn = "encounter" /\ call.done) => call.out = encounter(call.b, call.a)

\* a meeting of two agents that came from different cells
C14_Witness ==
    /\ call.fn = "encounter" /\ call.done
    /\ call.out = TRUE
    /\ call.a.pos = call.b.pos /\ call.a.prev # call.b.prev
\* the number of iterations `range(n)` makes
RangeLen(n) == IF n < 0 THEN 0 ELSE n

\* C15: a call of monte_carlo comes to its end; no trial takes more than
\* max_steps turns, and at the end exactly `trials` trials have been run.
C15_Terminates ==
    /\ [](/\ mc.trial <= RangeLen(mc.trials)
          /\ mc.t # None => mc.t.steps <= RangeLen(mc.max_steps)
          /\ MCOver => mc.trial = RangeLen(mc.trials))
    /\ (mc.pc # "idle") ~> MCOver

\* a call is over whose trials have all run their max_steps turns without a hit
C15_Witness ==
    /\ MCOver
    /\ mc.trials = MaxTrials /\ mc.trial = MaxTrials
    /\ mc.max_steps = MaxSteps /\ mc.t.steps = MaxSteps
    /\ mc.meets = 0
ResetAction == KeyM \/ KeyR \/ KeyO

PlayerTurn == KeyDir /\ mode = "PLAYER_VS_RANDOM" /\ ~met

\* C16: on a grid whose start corners differ, met is in every state the
\* encounter test on the present agents, and met implies turns >= 1; a reset
\* sets turns to 0 and met to false, a step on a round that is not over adds
\* one to turns, and nothing else changes turns.
C16_MetTracksEncounter ==
    /\ [](a_start # b_start =>
            /\ met = (Meeting(blue, red) \/ Crossing(blue, red))
            /\ met => turns >= 1)
    /\ [][IF ResetAction
          THEN turns' = 0 /\ met' = FALSE
          ELSE IF RandomTurn \/ PlayerTurn
               THEN turns' = turns + 1
               ELSE turns' = turns]_vars

\* a player round that ended by a crossing
C16_Witness ==
    /\ mode = "PLAYER_VS_RANDOM"
    /\ met /\ turns >= 1
    /\ blue.pos # red.pos

\* C17: a press of P sets show_mc to a result and leaves the agents, walls,
\* turns, met, mode, obstacles_on and auto_run as they were; every reset of the
\* round clears show_mc.
C17_MonteCarloFrame ==
    [][/\ (KeyP \/ (show_mc' # show_mc /\ show_mc' # None)) =>
              /\ show_mc' # None
              /\ UNCHANGED <<blue, red, walls, turns, met, mode, obstacles_on, auto_run>>
       /\ ResetAction => show_mc' = None]_vars

\* statistics are on display over an auto-run round that is under way
C17_Witness ==
    /\ show_mc # None
    /\ auto_run /\ turns >= 1 /\ ~met

\* C18: in a player turn on a round that is not over, a move onto a free cell
\* of the grid puts blue there with prev its cell before the turn, and any other
\* move leaves blue where it is with prev equal to pos; either way red takes one
\* legal random step with prev its cell before the turn, turns grows by one and
\* met is the encounter test on the agents after the turn.
C18_IllegalMoveCostsTurn ==
    /\ []((mode = "PLAYER_VS_RANDOM" /\ ~met) =>
            \A d \in dir_map, j \in Draws(red.pos, walls) :
                LET g == step_player_vs_random(cur, walls, d, j)
                    target == <<blue.pos[1] + d[1], blue.pos[2] + d[2]>>
                IN  /\ g.blue = IF target \in Cells \ walls
                                THEN Agent(target, blue.pos)
                                ELSE Agent(blue.pos, blue.pos)
                    /\ g.red.prev = red.pos
                    /\ g.red.pos \in FreeMoves(red.pos)
                    /\ g.turns = turns + 1
                    /\ g.met = (Meeting(g.blue, g.red) \/ Crossing(g.blue, g.red)))
    /\ [][PlayerTurn =>
              /\ blue'.prev = blue.pos
              /\ blue'.pos \in {blue.pos} \cup (Adjacent(blue.pos) \ walls)
              /\ red'.prev = red.pos
              /\ red'.pos \in FreeMoves(red.pos)
              /\ turns' = turns + 1
              /\ met' = (Meeting(blue', red') \/ Crossing(blue', red'))]_vars

\* blue has bumped into a wall or the edge while red moved on
C18_Witness ==
    /\ mode = "PLAYER_VS_RANDOM" /\ turns >= 1
    /\ blue.prev = blue.pos
    /\ red.prev # red.pos
Parity(p) == (p[1] + p[2]) % 2

\* the start corners are two cells of the same parity, as (0,0) and (11,11) are
EvenCorners == a_start # b_start /\ Parity(a_start) = Parity(b_start)

\* C19: in obstacle-free random-vs-random play from corners of equal parity,
\* as on the 12x12 grid, both agents change cell on every turn, the parities of
\* x + y of the two agents are equal after every turn, the agents are never on
\* adjacent cells, no crossing occurs, and every encounter is a meeting on one
\* cell; the positions of a Monte Carlo trial keep equal parity likewise.
C19_ParityNoCrossing ==
    (EvenCorners /\ mc.pc \in {"inner", "outer"} /\ mc.trial >= 1) =>
        /\ Parity(ref.blue.pos) = Parity(ref.red.pos)
        /\ Dist(ref.blue.pos, ref.red.pos) # 1
        /\ ref.turns >= 1 =>
               /\ Dist(ref.blue.pos, ref.blue.prev) = 1
               /\ Dist(ref.red.pos, ref.red.prev) = 1
        /\ ~Crossing(ref.blue, ref.red)
        /\ ref.met = Meeting(ref.blue, ref.red)
        /\ mc.t.steps >= 1 =>
               /\ Parity(mc.t.a_next) = Parity(mc.t.b_next)
               /\ Dist(mc.t.a_next, mc.t.b_next) # 1
               /\ ~(mc.t.a_next = mc.t.b /\ mc.t.b_next = mc.t.a /\ mc.t.hit)

\* the agents meet on one cell at the second turn of a trial
C19_Witness ==
    /\ EvenCorners /\ mc.pc \in {"inner", "outer"} /\ mc.trial >= 1
    /\ ref.turns = 2 /\ ref.met
    /\ ref.blue.pos = ref.red.pos

\* C20: auto_run is on only in random-vs-random mode; only ENTER in that mode
\* switches it on, and every mode toggle, obstacle toggle and reset switches it
\* off with turns 0 and met false, so that an auto-run tick never moves the
\* agents in player mode.
C20_AutoRunOnlyRandom ==
    /\ [](auto_run => mode = "RANDOM_VS_RANDOM")
    /\ [][/\ ResetAction => (~auto_run' /\ turns' = 0 /\ ~met')
          /\ (~auto_run /\ auto_run') =>
                 (KeyReturn /\ mode = "RANDOM_VS_RANDOM" /\ UNCHANGED mode)
          /\ AutoTick => (mode = "RANDOM_VS_RANDOM" /\ auto_run)]_vars

\* auto-run is on over a round with obstacles that is under way
C20_Witness ==
    /\ auto_run /\ mode = "RANDOM_VS_RANDOM"
    /\ obstacles_on /\ turns >= 1 /\ ~met
====
